---- MODULE Spec2Model ----
(***************************************************************************)
(* Model of the shioaji client SDK: the record layer (BaseModelV20 of      *)
(* base.py, instantiated as an order of order.py), the contract-catalog    *)
(* cache (utils.py and Shioaji.fetch_contracts), the account-scoped        *)
(* operations of the Shioaji facade and its two backend sessions with the  *)
(* trade audit log (shioaji.py), raise_resp_error (utils.py) and the       *)
(* choice of the record implementation at the import of base.py.           *)
(***************************************************************************)
EXTENDS Integers, Sequences, FiniteSets, TLC

VARIABLES
    \* ---- one record (an order): base.py BaseModelV20 / order.py BaseOrder
    data,          \* the record's __dict__: field -> value (defaults included)
    fields_set,    \* pydantic's __pydantic_fields_set__
    json,          \* the cached view __json__ ({} is the empty function)
    ret,           \* outcome of the last operation on the record
    lastWrite,     \* the last completed field write, with the cache state before it
    trade_json,    \* the cached view __json__ of the trade that holds the record
    \* ---- the catalog cache: utils.py and Shioaji.fetch_contracts
    now,           \* the UTC wall clock
    files,         \* the catalog directory: file name -> mtime or Absent
    status,        \* self.Contracts.status as seen through the facade
    call,          \* observation of the last fetch_contracts / login call
    \* ---- the facade's accounts and the backend session
    simulation,    \* self.simulation
    stock_account, \* self.stock_account
    futopt_account,\* self.futopt_account
    out,           \* observation of the last account-scoped call
    \* ---- the two backend sessions and the trade audit log
    LEGACY_TEST,   \* utils.LEGACY_TEST, read from the environment at import
    solace,        \* self._solace, the primary session
    solace_implicit, \* self._solace_implicit: None or the implicit session
    accounts,      \* what self._solace.list_accounts() returns
    created,       \* how many implicit sessions create_solace has made
    trace,         \* observation of the _trace_log call of the last facade call
    \* ---- utils.raise_resp_error
    resp,          \* observation of the last raise_resp_error call
    disconnects,   \* how many times session.disconnect() has been called
    \* ---- the import of base.py
    pydantic_version, \* what version("pydantic") reports
    BaseModel      \* the implementation bound to the name BaseModel

recVars   == <<data, fields_set, json, ret, lastWrite, trade_json>>
importVars == <<pydantic_version, BaseModel>>
cacheVars == <<now, files, status, call>>
acctVars  == <<simulation, stock_account, futopt_account, out>>
respVars  == <<resp, disconnects>>
routerVars == <<LEGACY_TEST, solace, solace_implicit, accounts, created, trace>>
vars      == <<data, fields_set, json, ret, lastWrite, trade_json,
               now, files, status, call,
               simulation, stock_account, futopt_account, out,
               LEGACY_TEST, solace, solace_implicit, accounts, created, trace,
               resp, disconnects, pydantic_version, BaseModel>>

(***************************************************************************)
(* Values held by record fields.  Every value is a tagged record so that   *)
(* the serialised form (model_dump(mode="json")) differs from the stored   *)
(* form wherever the code converts: an enum member becomes its string      *)
(* value, a nested model becomes a dict.                                   *)
(***************************************************************************)
None      == [kind |-> "none"]
IntV(n)   == [kind |-> "int", n |-> n]
StrV(s)   == [kind |-> "str", s |-> s]
EnumV(m)  == [kind |-> "enum", cls |-> "Action", member |-> m]

\* order.py BaseOrder: the fields of the modelled record
Fields    == {"action", "quantity", "id"}
Required  == {"action", "quantity"}

\* the declared default of an optional field (id: str = "")
Default(f) == StrV("")

\* constant.py Action: the primitive code of an enum member
EnumValue(m) == IF m = "Buy" THEN "Buy" ELSE "Sell"

\* model_dump(mode="json") applied to one value
Serialize(v) == IF v.kind = "enum" THEN StrV(EnumValue(v.member)) ELSE v

\* values an attribute write or lazy_setter may carry for a field (no
\* validation happens on assignment, so None and 0 are accepted)
WriteValues(f) ==
    CASE f = "action"   -> {EnumV("Sell"), None}
      [] f = "quantity" -> {IntV(0), IntV(5), None}
      [] f = "id"       -> {StrV(""), StrV("a1"), None}

\* values the validating constructor accepts for a field
CtorValues(f) ==
    CASE f = "action"   -> {EnumV("Buy"), EnumV("Sell")}
      [] f = "quantity" -> {IntV(1), IntV(5)}
      [] f = "id"       -> {StrV(""), StrV("a1")}

Empty == [f \in {} |-> None]

\* base.py model_dump(mode="json", exclude_unset=True, exclude_defaults=True,
\* exclude_none=True) of a record with __dict__ d and fields-set fs
Included(d, fs) ==
    {f \in fs : d[f] # None /\ (f \in Required \/ d[f] # Default(f))}

model_dump(d, fs) == [f \in Included(d, fs) |-> Serialize(d[f])]

\* lines 155-164 and 168-177: the view a read leaves in __json__
ViewAfterRead == IF json = Empty THEN model_dump(data, fields_set) ELSE json

NoWrite == [fields |-> {}, cached |-> FALSE]
NoRet   == [op |-> "init", err |-> "none", names |-> {}, wr |-> {}]

\* the state after a validated construction Order(...)
InitRecord ==
    /\ \E a \in CtorValues("action"), q \in CtorValues("quantity"),
          passed \in SUBSET (Fields \ Required) :
         \E i \in CtorValues("id") :
            /\ data = [f \in Fields |->
                         CASE f = "action" -> a
                           [] f = "quantity" -> q
                           [] f = "id" -> IF "id" \in passed THEN i ELSE Default(f)]
            /\ fields_set = Required \cup passed
    /\ json = Empty
    /\ ret = NoRet
    /\ lastWrite = NoWrite
    /\ trade_json = Empty

\* BaseModelV20.keys
Keys ==
    /\ json' = ViewAfterRead
    /\ ret' = [op |-> "keys", err |-> "none", names |-> {}, wr |-> {}]
    /\ UNCHANGED <<data, fields_set, lastWrite, trade_json>>
    /\ UNCHANGED <<cacheVars, acctVars, routerVars, respVars, importVars>>

\* BaseModelV20.__getitem__
GetItem(f) ==
    /\ json' = ViewAfterRead
    /\ ret' = [op |-> "getitem",
               err |-> IF f \in DOMAIN ViewAfterRead THEN "none" ELSE "KeyError",
               names |-> {}, wr |-> {}]
    /\ UNCHANGED <<data, fields_set, lastWrite, trade_json>>
    /\ UNCHANGED <<cacheVars, acctVars, routerVars, respVars, importVars>>

\* BaseModelV20._clean_cache
CleanCache(j) == IF j # Empty THEN Empty ELSE j

\* BaseModelV20.__setattr__ (lines 191-193) applied to the record state
\* st = [data, fs, json, err, wr]: the cache is cleaned first, then
\* pydantic's __setattr__ stores a declared field and marks it set, and
\* rejects any other public name with ValueError
SetAttrOn(st, name, v) ==
    IF name \in Fields
    THEN [st EXCEPT !.json = CleanCache(st.json),
                    !.data = [st.data EXCEPT ![name] = v],
                    !.fs   = st.fs \cup {name},
                    !.wr   = st.wr \cup {name}]
    ELSE [st EXCEPT !.json = CleanCache(st.json), !.err = "ValueError"]

\* names lazy_setter may be handed that are not declared fields: a method
\* of the record (hasattr is true) and a name the record does not have
MethodNames  == {"keys"}
UnknownNames == {"unknown_field"}

\* hasattr(self, name)
HasAttr(name) == name \in Fields \cup MethodNames

\* BaseModelV20.lazy_setter (lines 180-185): the comprehension walks the
\* keyword arguments in order and stops at the first exception
RECURSIVE ApplyUpdates(_, _)
ApplyUpdates(st, ups) ==
    IF ups = <<>> \/ st.err # "none" THEN st
    ELSE LET k == Head(ups)[1]
             v == Head(ups)[2]
         IN  IF HasAttr(k)
             THEN ApplyUpdates(SetAttrOn(st, k, v), Tail(ups))
             ELSE ApplyUpdates(st, Tail(ups))

RecState == [data |-> data, fs |-> fields_set, json |-> json,
             err |-> "none", wr |-> {}]

\* names: the attribute names the call was handed.  A write to the record
\* goes through the record's own __setattr__ and leaves the view of the
\* trade that holds it as it is.
Commit(st, op, names) ==
    /\ data' = st.data
    /\ fields_set' = st.fs
    /\ json' = st.json
    /\ ret' = [op |-> op, err |-> st.err, names |-> names, wr |-> st.wr]
    /\ trade_json' = trade_json
    /\ lastWrite' = IF st.wr = {} THEN lastWrite
                    ELSE [fields |-> st.wr, cached |-> json # Empty]
    /\ UNCHANGED <<cacheVars, acctVars, routerVars, respVars, importVars>>

\* attribute assignment record.f = v on a declared field
SetAttr(f, v) == Commit(SetAttrOn(RecState, f, v), "setattr", {f})

\* the keyword arguments of one lazy_setter call: at most MaxUpdates
\* pairs with distinct names
MaxUpdates == 2
UpdateNames == Fields \cup MethodNames \cup UnknownNames
UpdateValues(k) == IF k \in Fields THEN WriteValues(k) ELSE {IntV(1)}
PairsFor(names) == UNION {{<<k, v>> : v \in UpdateValues(k)} : k \in names}
RECURSIVE UpdatesOfLen(_)
UpdatesOfLen(n) ==
    IF n = 0 THEN {<<>>}
    ELSE UNION {{Append(s, p) :
                    p \in PairsFor(UpdateNames \ {s[i][1] : i \in 1..Len(s)})} :
                s \in UpdatesOfLen(n - 1)}
Updates == UNION {UpdatesOfLen(n) : n \in 0..MaxUpdates}

LazySetter(ups) ==
    Commit(ApplyUpdates(RecState, ups), "lazy_setter",
           {ups[i][1] : i \in 1..Len(ups)})

\* order.py lines 132-138: the record is the order of a Trade; the view of
\* the trade (lines 155-164, 168-177 applied to the trade) holds the dump
\* of the nested order as it was when the view was built
DictV(d) == [kind |-> "dict", items |-> d]
TradeView == [k \in {"order"} |-> DictV(model_dump(data, fields_set))]
TradeViewAfterRead == IF trade_json = Empty THEN TradeView ELSE trade_json

\* trade["order"]
TradeGetItem ==
    /\ trade_json' = TradeViewAfterRead
    /\ ret' = [op |-> "trade_getitem", err |-> "none", names |-> {"order"}, wr |-> {}]
    /\ UNCHANGED <<data, fields_set, json, lastWrite>>
    /\ UNCHANGED <<cacheVars, acctVars, routerVars, respVars, importVars>>

\* trade.order = trade.order: a write to a field of the trade cleans the
\* view of the trade (lines 187-193 applied to the trade)
TradeSetAttr ==
    /\ trade_json' = CleanCache(trade_json)
    /\ ret' = [op |-> "trade_setattr", err |-> "none", names |-> {"order"}, wr |-> {}]
    /\ UNCHANGED <<data, fields_set, json, lastWrite>>
    /\ UNCHANGED <<cacheVars, acctVars, routerVars, respVars, importVars>>

NextRecord ==
    \/ Keys
    \/ \E f \in Fields : GetItem(f)
    \/ \E f \in Fields : \E v \in WriteValues(f) : SetAttr(f, v)
    \/ \E ups \in Updates : LazySetter(ups)

\* the record as the order of a trade: reads of the trade, writes to the
\* trade and to the order
NextTrade ==
    \/ TradeGetItem
    \/ TradeSetAttr
    \/ \E f \in Fields : GetItem(f)
    \/ \E f \in Fields : \E v \in WriteValues(f) : SetAttr(f, v)
    \/ \E f \in Fields : \E v \in WriteValues(f) : LazySetter(<<<<f, v>>>>)

(***************************************************************************)
(* The contract-catalog cache.  Time is counted in minutes from 00:00 UTC  *)
(* of day 0; a datetime's date and hour are derived from it.               *)
(***************************************************************************)
MaxDay      == 4
MinPerDay   == 1440
\* the clock readings of a day: 05:59 and 06:01, the two sides of 06:00,
\* and 23:00
DayTimes    == {5 * 60 + 59, 6 * 60 + 1, 23 * 60}
Times       == {d * MinPerDay + m : d \in 0..MaxDay, m \in DayTimes}
Absent      == -1

DateOf(t)   == t \div MinPerDay
HourOf(t)   == (t % MinPerDay) \div 60
\* timedelta.days of (a - b): whole days, rounded towards minus infinity
DeltaDays(a, b) == (a - b) \div MinPerDay

\* the catalog directory
CatalogFile == "contracts.pkl"
LockFile    == "contracts.pkl.lock"
FileNames   == {CatalogFile, LockFile, "contracts.txt", "notes.pkl"}
Suffix(f)   == CASE f = CatalogFile -> ".pkl"
                 [] f = LockFile -> ".lock"
                 [] f = "contracts.txt" -> ".txt"
                 [] f = "notes.pkl" -> ".pkl"
StartsWithContract(f) == f # "notes.pkl"

\* utils.py line 60: keep_days: int = 3
KeepDays == 3

\* Outdated with the ".lock" suffix left out of the list
OutdatedPklOnly(dir, t, keep) ==
    {f \in FileNames :
        /\ dir[f] # Absent
        /\ Suffix(f) \in {".pkl"}
        /\ StartsWithContract(f)
        /\ DeltaDays(t, dir[f]) > keep}

\* the sweep that unlinks a file whose age in days equals keep as well
OutdatedInclusive(dir, t, keep) ==
    {f \in FileNames :
        /\ dir[f] # Absent
        /\ Suffix(f) \in {".pkl", ".lock"}
        /\ StartsWithContract(f)
        /\ DeltaDays(t, dir[f]) >= keep}

\* utils.py lines 65-70: the files the sweep unlinks at time t
Outdated(dir, t, keep) ==
    {f \in FileNames :
        /\ dir[f] # Absent
        /\ Suffix(f) \in {".pkl", ".lock"}
        /\ StartsWithContract(f)
        /\ DeltaDays(t, dir[f]) > keep}

\* utils.py lines 60-73: clear_outdated_contract_cache.  The loop visits
\* the directory in the order the OS lists it and the first file-system
\* error ends it, so the files in "visited" are the ones handled before an
\* error (all of them when there is none)
ClearOutdatedContractCache(dir, t, keep, visited) ==
    [f \in FileNames |->
        IF f \in visited /\ f \in Outdated(dir, t, keep) THEN Absent ELSE dir[f]]

\* check_contract_cache without the comparison of the dates
CheckNoDate(mtime, t) ==
    IF mtime # Absent
    THEN IF HourOf(t) >= 6 /\ HourOf(mtime) < 6 THEN FALSE ELSE TRUE
    ELSE FALSE

\* check_contract_cache with the hour boundary compared by > instead of >=
CheckHourAfter(mtime, t) ==
    IF mtime # Absent
    THEN IF DateOf(t) > DateOf(mtime) THEN FALSE
         ELSE IF HourOf(t) > 6 /\ HourOf(mtime) < 6 THEN FALSE
         ELSE TRUE
    ELSE FALSE

\* utils.py lines 82-94: check_contract_cache on a file whose modification
\* time is mtime (Absent: exists() is false), read at time t
check_contract_cache(mtime, t) ==
    IF mtime # Absent
    THEN IF DateOf(t) > DateOf(mtime) THEN FALSE
         ELSE IF HourOf(t) >= 6 /\ HourOf(mtime) < 6 THEN FALSE
         ELSE TRUE
    ELSE FALSE

\* constant.py lines 97-101
SecurityType == {"IND", "STK", "FUT", "OPT"}

NoCall == [op |-> "init"]

\* the callbacks the facade itself makes in one fetch_contracts call
NoCb   == [st \in SecurityType |-> 0]
OnceCb == [st \in SecurityType |-> 1]

\* the backend's new_contracts(): an empty catalog, nothing fetched
new_contracts == "Unfetch"

\* the backend's load_contracts_file(): the persisted catalog, or an empty
\* one when the file cannot be read
load_contracts_file(ok) == IF ok THEN [empty |-> FALSE, status |-> "Fetched"]
                           ELSE [empty |-> TRUE, status |-> "Unfetch"]

\* the backend's fetch_all_contract(): on success the catalog is Fetched
\* and written to the persisted file; a failure is raised to the caller
\* while the catalog is still Fetching
fetch_all_contract(dir, t, ok) ==
    IF ok THEN [files |-> [dir EXCEPT ![CatalogFile] = t], status |-> "Fetched",
                raised |-> "none"]
    ELSE [files |-> dir, status |-> "Fetching", raised |-> "BackendError"]

\* shioaji.py lines 283-300: fetch_contracts(contract_download, _, contracts_cb)
\*   visited : the files the sweep handled before a file-system error
\*   raced   : another process removed the catalog file between exists()
\*             and stat() of the freshness check
\*   loadOk  : load_contracts_file returned a non-empty catalog
\*   fetchOk : the backend fetch succeeded (it then persists the catalog)
\* The result is the record of everything the call did.  The facade is
\* single-threaded: a call is issued once the outcome of the previous one
\* has been read (call = NoCall).
FetchContracts(op, download, cb, visited, raced, loadOk, fetchOk) ==
    LET swept    == ClearOutdatedContractCache(files, now, KeepDays, visited)
        seen     == swept[CatalogFile]
        gone     == raced /\ seen # Absent
        atStat   == IF gone THEN Absent ELSE seen
        fresh    == check_contract_cache(seen, now)
        afterCk  == [swept EXCEPT ![CatalogFile] = atStat]
        loaded   == load_contracts_file(loadOk)
        fetched  == fetch_all_contract(afterCk, now, fetchOk)
        rec(check, ld, n, cbs, raised) ==
            [op |-> op, download |-> download, cb |-> cb, at |-> now,
             afterSweep |-> swept, sweepErr |-> visited # FileNames,
             unlinked |-> {f \in FileNames : files[f] # Absent /\ swept[f] = Absent},
             seen |-> atStat, check |-> check, loaded |-> ld, fetched |-> n,
             facadeCb |-> cbs, raised |-> raised]
    IN  IF gone
        THEN \* line 286: stat() raises, the exception leaves fetch_contracts
             [files |-> afterCk, status |-> new_contracts,
              call |-> rec("raise", "no", 0, NoCb, "FileNotFoundError")]
        ELSE IF download \/ ~fresh
        THEN \* lines 287-288
             [files |-> fetched.files, status |-> fetched.status,
              call |-> rec(IF fresh THEN "accept" ELSE "reject", "no", 1, NoCb,
                           fetched.raised)]
        ELSE IF new_contracts # "Unfetch"
        THEN \* lines 299-300
             [files |-> afterCk, status |-> new_contracts,
              call |-> rec("accept", "no", 0, NoCb, "none")]
        ELSE IF loaded.empty
        THEN \* lines 291-294
             [files |-> fetched.files, status |-> fetched.status,
              call |-> rec("accept", "empty", 1, NoCb, fetched.raised)]
        ELSE \* lines 291-292, 295-298
             [files |-> afterCk, status |-> loaded.status,
              call |-> rec("accept", "catalog", 0,
                           IF cb THEN OnceCb ELSE NoCb, "none")]

\* the sets of visited files: the whole directory, or what was handled
\* before an error on one of the two files the sweep stats
Visits == {FileNames} \cup {FileNames \ bad : bad \in (SUBSET {CatalogFile, LockFile}) \ {{}}}

\* the outcomes of the environment that one call can meet: an outcome that
\* the call never consults is fixed, so that each run is listed once
Meets(download, visited, raced, loadOk, fetchOk) ==
    LET seen  == ClearOutdatedContractCache(files, now, KeepDays, visited)[CatalogFile]
        fresh == check_contract_cache(seen, now)
    IN  /\ (raced => seen # Absent)
        /\ (~loadOk => ~raced /\ ~download /\ fresh)
        /\ (~fetchOk => ~raced /\ (download \/ ~fresh \/ ~loadOk))

fetch_contracts ==
    \E download \in BOOLEAN, cb \in BOOLEAN, visited \in Visits,
       raced \in BOOLEAN, loadOk \in BOOLEAN, fetchOk \in BOOLEAN :
        LET r == FetchContracts("fetch_contracts", download, cb, visited,
                                raced, loadOk, fetchOk)
        IN  /\ call = NoCall
            /\ Meets(download, visited, raced, loadOk, fetchOk)
            /\ files' = r.files
            /\ status' = r.status
            /\ call' = r.call
            /\ UNCHANGED <<now, recVars, acctVars, routerVars, respVars, importVars>>

\* the caller reads the outcome of its call
Return ==
    /\ call # NoCall
    /\ call' = NoCall
    /\ UNCHANGED <<now, files, status, recVars, acctVars, routerVars, respVars, importVars>>

\* the wall clock moves on between two calls
Tick ==
    /\ call = NoCall
    /\ \E t \in Times : t > now /\ now' = t
    /\ UNCHANGED <<files, status, call, recVars, acctVars, routerVars, respVars, importVars>>

\* a process start: nothing fetched, any clock, any directory left behind
\* by earlier runs (the two files that are not catalog artifacts are old)
LockTimes == {359}
InitCache ==
    /\ now \in Times
    /\ \E c \in Times \cup {Absent}, l \in LockTimes \cup {Absent} :
          files = [f \in FileNames |->
                      CASE f = CatalogFile -> c
                        [] f = LockFile -> l
                        [] OTHER -> 359]
    /\ status = "Unfetch"
    /\ call = NoCall

(***************************************************************************)
(* The facade's accounts and the account-scoped operations.  The backend   *)
(* session is an external collaborator: a call on it is recorded, with the *)
(* account it was given, in the observation of the facade call.            *)
(***************************************************************************)
Acct(type, signed) == [kind |-> "account", account_type |-> type, signed |-> signed]
StockAccounts  == {Acct("S", TRUE), Acct("S", FALSE)}
FutureAccounts == {Acct("F", TRUE), Acct("F", FALSE)}
Accounts       == StockAccounts \cup FutureAccounts

NoOut == [op |-> "init"]

\* the observation of one facade call: the account argument, the error
\* raised ("none": a normal return), the calls made on the backend session
Outcome(op, account, raised, backend) ==
    [op |-> op, account |-> account, raised |-> raised, backend |-> backend]
BackendCall(fn, account) == [fn |-> fn, account |-> account, contract |-> "-"]

NoTrace == [op |-> "init"]

\* shioaji.py line 216: the reconciliation mode, fixed by __init__
simu_to_stag == FALSE

\* the tokens the backend issues at a credential login
Tokens == {"tok1", "tok2"}

\* the backend's create_solace(site, proxies, simulation): a session that
\* has not logged in
create_solace(site) ==
    [kind |-> "session", site |-> site, logged_in |-> FALSE, login |-> "none",
     token |-> "none", subscribe_trade |-> TRUE]

\* the backend's token_login on session s: a credential login, after which
\* the session holds the token the backend issued
token_login(s, tok, subscribe_trade) ==
    [s EXCEPT !.logged_in = TRUE, !.login = "token_login", !.token = tok,
              !.subscribe_trade = subscribe_trade]

\* the backend's simulation_login on session s: a hand-off login with the
\* token of another session
simulation_login(s, tok, subscribe_trade) ==
    [s EXCEPT !.logged_in = TRUE, !.login = "simulation_login", !.token = tok,
              !.subscribe_trade = subscribe_trade]

\* the backend's logout on session s
session_logout(s) == [s EXCEPT !.logged_in = FALSE]

\* shioaji.py lines 219-237: _setup_solace (vpn is left at its default)
SetupSolace ==
    IF simu_to_stag
    THEN [solace |-> create_solace("stag"), solace_implicit |-> create_solace("prod")]
    ELSE [solace |-> create_solace("prod"), solace_implicit |-> None]

\* shioaji.py lines 319-337: the sessions after the login calls of login
LoginSessions(tok) ==
    IF simu_to_stag
    THEN [solace |-> simulation_login(solace, tok, TRUE),
          solace_implicit |-> session_logout(token_login(solace_implicit, tok, TRUE))]
    ELSE [solace |-> token_login(solace, tok, TRUE),
          solace_implicit |-> solace_implicit]

\* shioaji.py lines 309-347: login.  token_login is the backend's; sa and
\* fa are the default accounts the backend session holds after it, accs the
\* accounts it lists and tok the token it holds.  An exception of
\* fetch_contracts leaves login before the defaults are copied.
login(fetch_contract, cb, visited, raced, loadOk, fetchOk, sa, fa, accs, tok) ==
    \E download \in BOOLEAN :
        LET r == FetchContracts("login", download, cb, visited, raced, loadOk, fetchOk)
            failed == fetch_contract /\ r.call.raised # "none"
        IN  /\ IF fetch_contract
               THEN /\ call = NoCall
                    /\ Meets(download, visited, raced, loadOk, fetchOk)
                    /\ files' = r.files
                    /\ status' = r.status
                    /\ call' = r.call
               ELSE /\ ~raced /\ loadOk /\ fetchOk /\ ~download
                    /\ UNCHANGED <<files, status, call>>
            /\ stock_account' = IF failed THEN stock_account ELSE sa
            /\ futopt_account' = IF failed THEN futopt_account ELSE fa
            /\ out' = Outcome("login", None,
                              IF failed THEN r.call.raised ELSE "none",
                              <<BackendCall("token_login", None)>>)
            /\ solace' = LoginSessions(tok).solace
            /\ solace_implicit' = LoginSessions(tok).solace_implicit
            /\ accounts' = accs
            /\ trace' = NoTrace
            /\ UNCHANGED <<now, simulation, recVars, LEGACY_TEST, created, respVars, importVars>>

\* shioaji.py lines 381-393: set_default_account
set_default_account(account) ==
    /\ stock_account' = IF account.account_type = "S" THEN account ELSE stock_account
    /\ futopt_account' = IF account.account_type = "F" THEN account ELSE futopt_account
    /\ out' = Outcome("set_default_account", account, "none", <<>>)
    /\ UNCHANGED <<simulation, recVars, cacheVars, routerVars, respVars, importVars>>

\* SignedOnly with the test of the signed flag after the backend call
SignedOnlyLate(fn, account) ==
    IF account.signed
    THEN Outcome(fn, account, "none", <<BackendCall(fn, account)>>)
    ELSE Outcome(fn, account, "AccountNotSignError", <<BackendCall(fn, account)>>)

\* shioaji.py lines 554-558, 566-570, 580-584, 592-596, 607-613: the body
\* shared by the five reserve / earmarking operations
SignedOnly(fn, account) ==
    IF account.signed
    THEN Outcome(fn, account, "none", <<BackendCall(fn, account)>>)
    ELSE Outcome(fn, account, "AccountNotSignError", <<>>)

Observe(o) ==
    /\ out' = o
    /\ UNCHANGED <<simulation, stock_account, futopt_account, recVars, cacheVars,
                   routerVars, respVars, importVars>>

stock_reserve_summary == \E account \in Accounts :
    Observe(SignedOnly("stock_reserve_summary", account))
stock_reserve_detail == \E account \in Accounts :
    Observe(SignedOnly("stock_reserve_detail", account))
reserve_stock == \E account \in Accounts :
    Observe(SignedOnly("reserve_stock", account))
earmarking_detail == \E account \in Accounts :
    Observe(SignedOnly("earmarking_detail", account))
reserve_earmarking == \E account \in Accounts :
    Observe(SignedOnly("reserve_earmarking", account))

\* shioaji.py lines 615-632: update_combostatus(account)
UpdateCombostatus(account) ==
    IF account # None /\ account.signed
    THEN IF account.account_type = "F"
         THEN Outcome("update_combostatus", account, "none",
                      <<BackendCall("update_combostatus", account)>>)
         ELSE Outcome("update_combostatus", account, "AccountNotProvideError", <<>>)
    ELSE IF futopt_account # None /\ futopt_account.signed
         THEN Outcome("update_combostatus", account, "none",
                      <<BackendCall("update_combostatus", futopt_account)>>)
         ELSE Outcome("update_combostatus", account, "AccountNotProvideError", <<>>)

update_combostatus == \E account \in Accounts \cup {None} :
    Observe(UpdateCombostatus(account))

NoTrade == [kind |-> "notrade"]

\* update_status that queries the futures/options default account first
UpdateStatusFutoptFirst(account, tradeAccount) ==
    LET query(a) == IF a # None /\ (a.signed \/ simulation)
                    THEN <<BackendCall("update_status", a)>> ELSE <<>>
        o(backend) == [op |-> "update_status", account |-> account,
                       trade |-> tradeAccount, raised |-> "none", backend |-> backend]
    IN  IF tradeAccount # NoTrade
        THEN o(<<BackendCall("update_status", tradeAccount)>>)
        ELSE IF account # None
        THEN o(query(account))
        ELSE o(query(futopt_account) \o query(stock_account))

\* shioaji.py lines 518-546: update_status(account, trade); tradeAccount is
\* trade.order.account of the trade passed, NoTrade when none is passed
UpdateStatus(account, tradeAccount) ==
    LET query(a) == IF a # None /\ (a.signed \/ simulation)
                    THEN <<BackendCall("update_status", a)>> ELSE <<>>
        o(backend) == [op |-> "update_status", account |-> account,
                       trade |-> tradeAccount, raised |-> "none", backend |-> backend]
    IN  IF tradeAccount # NoTrade
        THEN o(<<BackendCall("update_status", tradeAccount)>>)
        ELSE IF account # None
        THEN o(query(account))
        ELSE o(query(stock_account) \o query(futopt_account))

update_status == \E account \in Accounts \cup {None}, tradeAccount \in Accounts \cup {NoTrade} :
    Observe(UpdateStatus(account, tradeAccount))

(***************************************************************************)
(* The trade audit log.  Day 0 of the clock is a Thursday, as day 0 of the *)
(* Unix epoch is; weekday() counts Monday as 0.                            *)
(***************************************************************************)
EpochWeekday == 3
Weekday(t) == (DateOf(t) + EpochWeekday) % 7

SessionCall(on, fn) == [on |-> on, fn |-> fn]
HandOff(tok, subscribe_trade) ==
    [on |-> "implicit", fn |-> "simulation_login", token |-> tok,
     subscribe_trade |-> subscribe_trade]

\* _trace_log with the hour of the window compared by > instead of >=
TraceLogLateHour(type, createOk, loginOk) ==
    LET t(imp, n, calls, raised) ==
            [solace_implicit |-> imp, created |-> created + n,
             trace |-> [op |-> "_trace_log", at |-> now, simulation |-> simulation,
                        type |-> type, had |-> solace_implicit # None,
                        token |-> solace.token, made |-> n,
                        calls |-> calls, raised |-> raised]]
        listed == <<SessionCall("primary", "list_accounts")>>
        fresh  == create_solace("stag")
    IN  IF ~simulation \/ Weekday(now) >= 5 \/ HourOf(now) > 12
        THEN
             t(solace_implicit, 0, <<>>, "none")
        ELSE IF simu_to_stag
        THEN
             t(solace_implicit, 0, <<SessionCall("primary", "trace_log")>>, "none")
        ELSE IF accounts # {} /\ type = "NoAccount"
        THEN
             t(solace_implicit, 0, listed, "AttributeError")
        ELSE IF ~(\E acc \in accounts : acc.account_type = type /\ ~acc.signed)
        THEN
             t(solace_implicit, 0, listed, "none")
        ELSE IF solace_implicit # None
        THEN
             t(solace_implicit, 0,
               listed \o <<SessionCall("implicit", "trace_log")>>, "none")
        ELSE IF ~createOk
        THEN
             t(None, 0, listed, "BackendError")
        ELSE IF ~loginOk
        THEN
             t(fresh, 1, listed \o <<HandOff(solace.token, FALSE)>>, "BackendError")
        ELSE
             t(simulation_login(fresh, solace.token, FALSE), 1,
               listed \o <<HandOff(solace.token, FALSE),
                            SessionCall("implicit", "trace_log")>>, "none")

\* _trace_log without the test of line 255: a session is created at every call
TraceLogAlwaysCreate(type, createOk, loginOk) ==
    LET t(imp, n, calls, raised) ==
            [solace_implicit |-> imp, created |-> created + n,
             trace |-> [op |-> "_trace_log", at |-> now, simulation |-> simulation,
                        type |-> type, had |-> solace_implicit # None,
                        token |-> solace.token, made |-> n,
                        calls |-> calls, raised |-> raised]]
        listed == <<SessionCall("primary", "list_accounts")>>
        fresh  == create_solace("stag")
    IN  IF ~simulation \/ Weekday(now) >= 5 \/ HourOf(now) >= 12
        THEN
             t(solace_implicit, 0, <<>>, "none")
        ELSE IF simu_to_stag
        THEN
             t(solace_implicit, 0, <<SessionCall("primary", "trace_log")>>, "none")
        ELSE IF accounts # {} /\ type = "NoAccount"
        THEN
             t(solace_implicit, 0, listed, "AttributeError")
        ELSE IF ~(\E acc \in accounts : acc.account_type = type /\ ~acc.signed)
        THEN
             t(solace_implicit, 0, listed, "none")
        ELSE IF FALSE
        THEN
             t(solace_implicit, 0,
               listed \o <<SessionCall("implicit", "trace_log")>>, "none")
        ELSE IF ~createOk
        THEN
             t(None, 0, listed, "BackendError")
        ELSE IF ~loginOk
        THEN
             t(fresh, 1, listed \o <<HandOff(solace.token, FALSE)>>, "BackendError")
        ELSE
             t(simulation_login(fresh, solace.token, FALSE), 1,
               listed \o <<HandOff(solace.token, FALSE),
                            SessionCall("implicit", "trace_log")>>, "none")

\* _trace_log with the hand-off login subscribing to trades
TraceLogSubscribing(type, createOk, loginOk) ==
    LET t(imp, n, calls, raised) ==
            [solace_implicit |-> imp, created |-> created + n,
             trace |-> [op |-> "_trace_log", at |-> now, simulation |-> simulation,
                        type |-> type, had |-> solace_implicit # None,
                        token |-> solace.token, made |-> n,
                        calls |-> calls, raised |-> raised]]
        listed == <<SessionCall("primary", "list_accounts")>>
        fresh  == create_solace("stag")
    IN  IF ~simulation \/ Weekday(now) >= 5 \/ HourOf(now) >= 12
        THEN
             t(solace_implicit, 0, <<>>, "none")
        ELSE IF simu_to_stag
        THEN
             t(solace_implicit, 0, <<SessionCall("primary", "trace_log")>>, "none")
        ELSE IF accounts # {} /\ type = "NoAccount"
        THEN
             t(solace_implicit, 0, listed, "AttributeError")
        ELSE IF ~(\E acc \in accounts : acc.account_type = type /\ ~acc.signed)
        THEN
             t(solace_implicit, 0, listed, "none")
        ELSE IF solace_implicit # None
        THEN
             t(solace_implicit, 0,
               listed \o <<SessionCall("implicit", "trace_log")>>, "none")
        ELSE IF ~createOk
        THEN
             t(None, 0, listed, "BackendError")
        ELSE IF ~loginOk
        THEN
             t(fresh, 1, listed \o <<HandOff(solace.token, TRUE)>>, "BackendError")
        ELSE
             t(simulation_login(fresh, solace.token, TRUE), 1,
               listed \o <<HandOff(solace.token, TRUE),
                            SessionCall("implicit", "trace_log")>>, "none")

\* shioaji.py lines 239-267: _trace_log(trade)
\*   type     : trade.order.account.account_type, "NoAccount" when the
\*              order of the trade carries no account
\*   createOk : create_solace returns a session (it raises otherwise)
\*   loginOk  : simulation_login returns (it raises otherwise)
\* The result is the implicit session and the number of sessions created
\* after the call, with the observation of the call: the session calls it
\* made in their order, and the error it raised ("none": it returned).
TraceLog(type, createOk, loginOk) ==
    LET t(imp, n, calls, raised) ==
            [solace_implicit |-> imp, created |-> created + n,
             trace |-> [op |-> "_trace_log", at |-> now, simulation |-> simulation,
                        type |-> type, had |-> solace_implicit # None,
                        token |-> solace.token, made |-> n,
                        calls |-> calls, raised |-> raised]]
        listed == <<SessionCall("primary", "list_accounts")>>
        fresh  == create_solace("stag")
    IN  IF ~simulation \/ Weekday(now) >= 5 \/ HourOf(now) >= 12
        THEN \* lines 240-245
             t(solace_implicit, 0, <<>>, "none")
        ELSE IF simu_to_stag
        THEN \* lines 266-267
             t(solace_implicit, 0, <<SessionCall("primary", "trace_log")>>, "none")
        ELSE IF accounts # {} /\ type = "NoAccount"
        THEN \* line 251: trade.order.account is None
             t(solace_implicit, 0, listed, "AttributeError")
        ELSE IF ~(\E acc \in accounts : acc.account_type = type /\ ~acc.signed)
        THEN \* lines 248-254 with not_signed false: nothing is forwarded
             t(solace_implicit, 0, listed, "none")
        ELSE IF solace_implicit # None
        THEN \* line 265 on the session kept from an earlier call
             t(solace_implicit, 0,
               listed \o <<SessionCall("implicit", "trace_log")>>, "none")
        ELSE IF ~createOk
        THEN \* lines 256-258 raise: no session is kept
             t(None, 0, listed, "BackendError")
        ELSE IF ~loginOk
        THEN \* lines 260-264 raise: the session made at line 256 is kept
             t(fresh, 1, listed \o <<HandOff(solace.token, FALSE)>>, "BackendError")
        ELSE \* lines 256-265
             t(simulation_login(fresh, solace.token, FALSE), 1,
               listed \o <<HandOff(solace.token, FALSE),
                            SessionCall("implicit", "trace_log")>>, "none")

\* the environment outcomes a _trace_log call does not consult are fixed
Consulted(type, createOk, loginOk) ==
    LET r == TraceLog(type, createOk, loginOk).trace
        creating == r.raised = "BackendError" \/ r.made = 1
    IN  /\ (~creating => createOk /\ loginOk)
        /\ (~createOk => loginOk)

MaxCreated == 2

\* a direct call of _trace_log(trade), trade.order.account being of type
_trace_log ==
    \E type \in {"S", "F"}, createOk \in BOOLEAN, loginOk \in BOOLEAN :
        LET r == TraceLog(type, createOk, loginOk)
        IN  /\ Consulted(type, createOk, loginOk)
            /\ created < MaxCreated
            /\ solace_implicit' = r.solace_implicit
            /\ created' = r.created
            /\ trace' = r.trace
            /\ out' = Outcome("_trace_log", None, r.trace.raised, <<>>)
            /\ UNCHANGED <<LEGACY_TEST, solace, accounts, simulation, stock_account,
                           futopt_account, recVars, cacheVars, respVars, importVars>>

\* shioaji.py lines 349-352: logout
logout ==
    /\ solace' = session_logout(solace)
    /\ out' = Outcome("logout", None, "none", <<BackendCall("logout", None)>>)
    /\ trace' = NoTrace
    /\ UNCHANGED <<LEGACY_TEST, solace_implicit, accounts, created,
                   simulation, stock_account, futopt_account, recVars, cacheVars, respVars, importVars>>

\* the clock of the audit window: the minutes around 12:00 UTC of a Friday,
\* a Saturday, a Sunday and a Monday
TraceDayTimes == {11 * 60 + 59, 12 * 60}
TraceDays == 1..MaxDay
TraceTimes == {d * MinPerDay + m : d \in TraceDays, m \in TraceDayTimes}
Clock ==
    /\ \E t \in TraceTimes : t > now /\ now' = t
    /\ UNCHANGED <<files, status, call, recVars, acctVars, routerVars, respVars, importVars>>

\* shioaji.py lines 409-428: place_order(contract, order)
\*   sec        : the class of the contract
\*   target     : the contract carries a target_code
\*   inFutures  : Contracts.Futures holds that target
\*   given      : order.account as passed by the caller
PlaceOrder(sec, target, inFutures, given) ==
    LET dropped  == given = None /\ sec \notin {"Future", "Option", "Stock"}
        assigned == IF given # None THEN given
                    ELSE IF sec \in {"Future", "Option"} THEN futopt_account
                    ELSE IF sec = "Stock" THEN stock_account
                    ELSE given
        o(raised, returned, backend) ==
            [op |-> "place_order", account |-> given, raised |-> raised,
             backend |-> backend, sec |-> sec, returned |-> returned,
             orderAccount |-> assigned,
             target |-> IF ~target THEN "plain"
                        ELSE IF inFutures THEN "present" ELSE "absent"]
    IN  IF dropped THEN o("none", "None", <<>>)
        ELSE IF target /\ ~inFutures THEN o("TargetContractNotExistError", "-", <<>>)
        ELSE o("none", "trade",
               <<[fn |-> "place_order", account |-> assigned,
                  contract |-> IF target THEN "target" ELSE "original"]>>)

\* lines 425-428: after the backend call, _trace_log(trade) when LEGACY_TEST
\* and simulation; an exception of _trace_log leaves place_order
place_order(sec, target, inFutures, given, createOk, loginOk) ==
        LET o    == PlaceOrder(sec, target, inFutures, given)
            type == IF o.orderAccount = None THEN "NoAccount"
                    ELSE o.orderAccount.account_type
            r    == TraceLog(type, createOk, loginOk)
        IN  /\ (inFutures => target)
            /\ IF o.backend # <<>> /\ LEGACY_TEST # 0 /\ simulation
               THEN /\ Consulted(type, createOk, loginOk)
                    /\ created < MaxCreated
                    /\ solace_implicit' = r.solace_implicit
                    /\ created' = r.created
                    /\ trace' = r.trace
                    /\ out' = IF r.trace.raised = "none" THEN o
                              ELSE [o EXCEPT !.raised = r.trace.raised,
                                             !.returned = "-"]
               ELSE /\ createOk /\ loginOk
                    /\ out' = o
                    /\ trace' = NoTrace
                    /\ UNCHANGED <<solace_implicit, created>>
            /\ UNCHANGED <<LEGACY_TEST, solace, accounts, simulation, stock_account,
                           futopt_account, recVars, cacheVars, respVars, importVars>>

\* _portfolio_default_account that prefers the futures/options account
PortfolioDefaultAccountFutoptFirst ==
    IF futopt_account # None THEN [account |-> futopt_account, raised |-> "none"]
    ELSE IF stock_account # None THEN [account |-> stock_account, raised |-> "none"]
    ELSE [account |-> None, raised |-> "AccountNotProvideError"]

\* shioaji.py lines 269-275: _portfolio_default_account
PortfolioDefaultAccount ==
    IF stock_account # None THEN [account |-> stock_account, raised |-> "none"]
    ELSE IF futopt_account # None THEN [account |-> futopt_account, raised |-> "none"]
    ELSE [account |-> None, raised |-> "AccountNotProvideError"]

\* shioaji.py lines 634-782: the body shared by the five portfolio
\* queries ("if account: ... else: default_account = ...")
PortfolioQuery(fn, account) ==
    IF account # None
    THEN Outcome(fn, account, "none", <<BackendCall(fn, account)>>)
    ELSE LET d == PortfolioDefaultAccount
         IN  IF d.raised # "none"
             THEN Outcome(fn, account, d.raised, <<>>)
             ELSE Outcome(fn, account, "none", <<BackendCall(fn, d.account)>>)

list_positions == \E account \in Accounts \cup {None} :
    Observe(PortfolioQuery("list_positions", account))
list_position_detail == \E account \in Accounts \cup {None} :
    Observe(PortfolioQuery("list_position_detail", account))
list_profit_loss == \E account \in Accounts \cup {None} :
    Observe(PortfolioQuery("list_profit_loss", account))
list_profit_loss_detail == \E account \in Accounts \cup {None} :
    Observe(PortfolioQuery("list_profit_loss_detail", account))
list_profit_loss_summary == \E account \in Accounts \cup {None} :
    Observe(PortfolioQuery("list_profit_loss_summary", account))

\* a leg of a combo contract: whether it carries a target_code, and whether
\* Contracts.Futures holds that target
LegKinds == {"plain", "present", "absent"}
MaxLegs == 2
RECURSIVE LegsOfLen(_)
LegsOfLen(n) == IF n = 0 THEN {<<>>}
                ELSE {Append(l, k) : l \in LegsOfLen(n - 1), k \in LegKinds}
ComboLegs == UNION {LegsOfLen(n) : n \in 0..MaxLegs}

\* shioaji.py lines 478-501: place_comboorder(combo_contract, order).  A
\* number of legs other than two is logged and the call goes on (lines
\* 478-479); the loop of lines 481-489 raises at the first leg whose target
\* is not in Contracts.Futures.
PlaceComboorder(legs, given) ==
    LET \* lines 486-489: the legs whose code, name, symbol and target_code
        \* the loop has rewritten when it ends or raises
        rewritten == {i \in 1..Len(legs) :
                        /\ legs[i] = "present"
                        /\ \A j \in 1..i : legs[j] # "absent"}
        o(raised, backend, account) ==
            [op |-> "place_comboorder", account |-> given, raised |-> raised,
             backend |-> backend, legs |-> legs, rewritten |-> rewritten,
             orderAccount |-> account]
        sent(a) == <<[fn |-> "place_comboorder", account |-> a, contract |-> "combo"]>>
    IN  IF \E i \in 1..Len(legs) : legs[i] = "absent"
        THEN o("TargetContractNotExistError", <<>>, given)
        ELSE IF given # None
        THEN IF given.account_type = "F"
             THEN o("none", sent(given), given)
             ELSE o("AccountNotProvideError", <<>>, given)
        ELSE IF futopt_account = None
        THEN o("AccountNotProvideError", <<>>, given)
        ELSE o("none", sent(futopt_account), futopt_account)

place_comboorder == \E legs \in ComboLegs, given \in Accounts \cup {None} :
    Observe(PlaceComboorder(legs, given))

\* the facade after construction (lines 204-217), in either mode
InitAcct ==
    /\ simulation \in BOOLEAN
    /\ stock_account = None
    /\ futopt_account = None
    /\ out = NoOut

\* the facade and its sessions after construction (lines 204-237), with
\* LEGACY_TEST as the environment sets it
InitRouter ==
    /\ LEGACY_TEST \in {0, 1}
    /\ solace = SetupSolace.solace
    /\ solace_implicit = SetupSolace.solace_implicit
    /\ accounts = {}
    /\ created = 0
    /\ trace = NoTrace

(***************************************************************************)
(* utils.raise_resp_error(status_code, resp, session).  resp is the        *)
(* decoded response of the backend: a dict that may hold a "response"      *)
(* dict, which may hold a "detail" string.                                 *)
(***************************************************************************)
StatusCodes == {200, 400, 401, 402, 404, 500, 502, 503, 504}
RespShapes == {"empty", "nodetail", "detail"}
Detail(shape) == IF shape = "detail" THEN "d" ELSE ""
NoResp == [op |-> "init"]
MaxDisconnects == 4

\* raise_resp_error that disconnects the session for status 503 as well
RaiseRespErrorMaintenance(status_code, shape) ==
    LET o(n, error, code, message) ==
            [op |-> "raise_resp_error", status_code |-> status_code, shape |-> shape,
             disconnected |-> n, raised |-> error, code |-> code, message |-> message]
    IN  IF status_code = 401
        THEN o(1, "TokenError", status_code, Detail(shape))
        ELSE IF status_code = 503
        THEN o(1, "SystemMaintenance", status_code, Detail(shape))
        ELSE o(0, "Exception", 0, shape)

\* utils.py lines 48-57: the number of session.disconnect() calls made and
\* the error raised, with the code and message it carries
RaiseRespError(status_code, shape) ==
    LET o(n, error, code, message) ==
            [op |-> "raise_resp_error", status_code |-> status_code, shape |-> shape,
             disconnected |-> n, raised |-> error, code |-> code, message |-> message]
    IN  IF status_code = 401
        THEN o(1, "TokenError", status_code, Detail(shape))
        ELSE IF status_code = 503
        THEN o(0, "SystemMaintenance", status_code, Detail(shape))
        ELSE o(0, "Exception", 0, shape)

raise_resp_error ==
    \E status_code \in StatusCodes, shape \in RespShapes :
        LET o == RaiseRespError(status_code, shape)
        IN  /\ disconnects + o.disconnected <= MaxDisconnects
            /\ resp' = o
            /\ disconnects' = disconnects + o.disconnected
            /\ UNCHANGED <<recVars, cacheVars, acctVars, routerVars, importVars>>

InitResp ==
    /\ resp = NoResp
    /\ disconnects = 0

(***************************************************************************)
(* base.py lines 216-228: the choice of the record implementation.  A      *)
(* string is the sequence of the code points of its characters, and        *)
(* strings compare as Python compares them: by the first code point that   *)
(* differs, a proper prefix being the smaller.                             *)
(***************************************************************************)
MaxMajor == 12
MaxMinor == 12
Versions == [major : 0..MaxMajor, minor : 0..MaxMinor]

\* str(n) for a number below 100
Digits(n) == IF n < 10 THEN <<48 + n>> ELSE <<48 + (n \div 10), 48 + (n % 10)>>

\* the version string "major.minor" the library reports
VersionString(v) == Digits(v.major) \o <<46>> \o Digits(v.minor)

RECURSIVE StrLess(_, _)
StrLess(a, b) ==
    IF b = <<>> THEN FALSE
    ELSE IF a = <<>> THEN TRUE
    ELSE IF Head(a) # Head(b) THEN Head(a) < Head(b)
    ELSE StrLess(Tail(a), Tail(b))

\* the literals "2.0" and "1.0" of lines 218 and 221
Str20 == <<50, 46, 48>>
Str10 == <<49, 46, 48>>

\* lines 218-228
SelectBaseModel(version) ==
    IF ~StrLess(version, Str20) THEN "BaseModelV20"
    ELSE IF StrLess(Str10, version) THEN "BaseModelV15"
    ELSE "BaseModelV10"

\* the import of base.py: the module body runs once
import_base ==
    /\ BaseModel = "unbound"
    /\ BaseModel' = SelectBaseModel(VersionString(pydantic_version))
    /\ UNCHANGED <<pydantic_version, recVars, cacheVars, acctVars, routerVars, respVars>>

InitImport ==
    /\ pydantic_version \in Versions
    /\ BaseModel = "unbound"

\* base.py imported under pydantic 2.0
IdleImport ==
    /\ pydantic_version = [major |-> 2, minor |-> 0]
    /\ BaseModel = "BaseModelV20"

NextImport == import_base

NextCache ==
    \/ fetch_contracts
    \/ \E raced \in BOOLEAN, loadOk \in BOOLEAN, fetchOk \in BOOLEAN :
          login(TRUE, FALSE, FileNames, raced, loadOk, fetchOk,
                Acct("S", TRUE), None, {Acct("S", TRUE)}, "tok1")
    \/ Return
    \/ Tick

NextAcct ==
    \/ \E sa \in StockAccounts \cup {None}, fa \in FutureAccounts \cup {None} :
          login(FALSE, FALSE, FileNames, FALSE, TRUE, TRUE, sa, fa,
                {sa, fa} \ {None}, "tok1")
    \/ \E account \in Accounts : set_default_account(account)
    \/ stock_reserve_summary
    \/ stock_reserve_detail
    \/ reserve_stock
    \/ earmarking_detail
    \/ reserve_earmarking
    \/ update_combostatus
    \/ update_status
    \/ \E sec \in {"Stock", "Future", "Option", "Index"}, target \in BOOLEAN,
          inFutures \in BOOLEAN, given \in Accounts \cup {None} :
          place_order(sec, target, inFutures, given, TRUE, TRUE)

NextPortfolio ==
    \/ \E sa \in StockAccounts \cup {None}, fa \in FutureAccounts \cup {None} :
          login(FALSE, FALSE, FileNames, FALSE, TRUE, TRUE, sa, fa,
                {sa, fa} \ {None}, "tok1")
    \/ \E account \in Accounts : set_default_account(account)
    \/ list_positions
    \/ list_position_detail
    \/ list_profit_loss
    \/ list_profit_loss_detail
    \/ list_profit_loss_summary

NextOrder ==
    \/ \E sa \in StockAccounts \cup {None}, fa \in FutureAccounts \cup {None} :
          login(FALSE, FALSE, FileNames, FALSE, TRUE, TRUE, sa, fa,
                {sa, fa} \ {None}, "tok1")
    \/ \E sec \in {"Stock", "Future", "Option", "Index"}, target \in BOOLEAN,
          inFutures \in BOOLEAN, given \in Accounts \cup {None} :
          place_order(sec, target, inFutures, given, TRUE, TRUE)
    \/ place_comboorder

NextRouter ==
    \/ \E sa \in StockAccounts \cup {None}, fa \in FutureAccounts \cup {None},
          tok \in Tokens :
          login(FALSE, FALSE, FileNames, FALSE, TRUE, TRUE, sa, fa,
                {sa, fa} \ {None}, tok)
    \/ _trace_log
    \/ \E sec \in {"Stock", "Future"}, given \in {None, Acct("F", TRUE)},
          createOk \in BOOLEAN, loginOk \in BOOLEAN :
          place_order(sec, FALSE, FALSE, given, createOk, loginOk)
    \/ logout
    \/ Clock

NextResp == raise_resp_error

\* the parts of the state a specification does not exercise stay as built
IdleRecord ==
    /\ data = [f \in Fields |-> IF f = "action" THEN EnumV("Buy")
                                ELSE IF f = "quantity" THEN IntV(1) ELSE Default(f)]
    /\ fields_set = Required
    /\ json = Empty
    /\ ret = NoRet
    /\ lastWrite = NoWrite
    /\ trade_json = Empty

IdleCache ==
    /\ now = 359
    /\ files = [f \in FileNames |-> Absent]
    /\ status = "Unfetch"
    /\ call = NoCall

IdleAcct ==
    /\ simulation = FALSE
    /\ stock_account = None
    /\ futopt_account = None
    /\ out = NoOut

IdleRouter ==
    /\ LEGACY_TEST = 0
    /\ solace = SetupSolace.solace
    /\ solace_implicit = SetupSolace.solace_implicit
    /\ accounts = {}
    /\ created = 0
    /\ trace = NoTrace

InitC == IdleRecord /\ InitCache /\ IdleAcct /\ IdleRouter /\ InitResp /\ IdleImport
SpecCache == InitC /\ [][NextCache]_vars

InitA == IdleRecord /\ IdleCache /\ InitAcct /\ IdleRouter /\ InitResp /\ IdleImport
SpecAcct == InitA /\ [][NextAcct]_vars

SpecOrder == InitA /\ [][NextOrder]_vars

SpecPortfolio == InitA /\ [][NextPortfolio]_vars

InitRec == InitRecord /\ IdleCache /\ IdleAcct /\ IdleRouter /\ InitResp /\ IdleImport
SpecRecord == InitRec /\ [][NextRecord]_vars

SpecTrade == InitRec /\ [][NextTrade]_vars

\* the clock of the router starts at any instant of the audit window's clock
InitR ==
    /\ IdleRecord
    /\ now \in TraceTimes
    /\ files = [f \in FileNames |-> Absent]
    /\ status = "Unfetch"
    /\ call = NoCall
    /\ InitAcct
    /\ InitRouter
    /\ InitResp
    /\ IdleImport
SpecRouter == InitR /\ [][NextRouter]_vars

InitE == IdleRecord /\ IdleCache /\ IdleAcct /\ IdleRouter /\ InitResp /\ IdleImport
SpecResp == InitE /\ [][NextResp]_vars

InitI == IdleRecord /\ IdleCache /\ IdleAcct /\ IdleRouter /\ InitResp /\ InitImport
SpecImport == InitI /\ [][NextImport]_vars

\* what a subscript read of f returns in the current state, and what keys()
\* returns (the reads of lines 154-178 applied to the current state)
ReadOf(f) == IF f \in DOMAIN ViewAfterRead THEN ViewAfterRead[f]
             ELSE [kind |-> "KeyError"]
KeysNow == DOMAIN ViewAfterRead

\* C1: after a write to a field f (attribute assignment or lazy_setter), a
\* subscript read of f returns the serialised new value and keys() contains
\* f, whether or not the cached view was populated before the write.
C1_ReadAfterWrite ==
    \A f \in lastWrite.fields :
        /\ ReadOf(f) = Serialize(data[f])
        /\ f \in KeysNow

FetchOps == {"fetch_contracts", "login"}
AfterFetch == call.op \in FetchOps

\* C2: the freshness check accepts the persisted file exactly when the file
\* exists, its modification date is not before the current date, and it is
\* not the case that the current hour is >= 6 while the file's hour is < 6;
\* a file of 05:59 is rejected at 06:01 of the same day and a file of 06:01
\* is accepted at 05:59 of the same day.
C2_FreshnessRule ==
    AfterFetch =>
        /\ (call.check = "accept") <=>
               /\ call.seen # Absent
               /\ ~(DateOf(call.seen) < DateOf(call.at))
               /\ ~(HourOf(call.at) >= 6 /\ HourOf(call.seen) < 6)
        /\ \A d \in 0..MaxDay :
               /\ (call.seen = d * MinPerDay + 359 /\ call.at = d * MinPerDay + 361)
                      => call.check = "reject"
               /\ (call.seen = d * MinPerDay + 361 /\ call.at = d * MinPerDay + 359)
                      => call.check = "accept"

\* C2 witness: a file of 05:59 met at 06:01 of the same day was rejected.
C2_Witness ==
    /\ AfterFetch
    /\ call.seen # Absent
    /\ DateOf(call.seen) = DateOf(call.at)
    /\ call.seen % MinPerDay = 359
    /\ call.at % MinPerDay = 361
    /\ call.check = "reject"

\* the most recent scheduled refresh point (00:00 or 06:00 UTC of the
\* current day) that is not after t
RefreshPoint(t) == DateOf(t) * MinPerDay + (IF t % MinPerDay >= 360 THEN 360 ELSE 0)

\* C3: whenever fetch_contracts uses the catalog loaded from the persisted
\* file instead of fetching, the file was modified at or after the most
\* recent refresh point that is not after the current time.
C3_LoadedNotOlderThanRefresh ==
    (AfterFetch /\ call.loaded = "catalog" /\ call.fetched = 0)
        => call.seen >= RefreshPoint(call.at)

\* C3 witness: a file older than the clock, but not older than the refresh
\* point, was loaded after 06:00 without a backend fetch.
C3_Witness ==
    /\ AfterFetch
    /\ call.loaded = "catalog" /\ call.fetched = 0
    /\ call.seen < call.at
    /\ HourOf(call.at) >= 6

\* C4: fetch_contracts calls the backend fetch exactly when contract_download
\* is true, or the freshness check rejects the file, or the loaded catalog is
\* empty; otherwise it makes no backend fetch, keeps the loaded catalog and,
\* if a callback was supplied, invokes it once for each security type.
C4_FetchExactlyWhen ==
    AfterFetch =>
        LET must == call.download \/ call.check = "reject" \/ call.loaded = "empty"
        IN  /\ (call.fetched = 1) <=> must
            /\ ~must => /\ call.fetched = 0
                        /\ call.loaded = "catalog"
                        /\ status = "Fetched"
                        /\ call.facadeCb = IF call.cb THEN OnceCb ELSE NoCb

\* C5: over any sequence of login and fetch_contracts calls the catalog's
\* status never returns to Unfetch once it has left it, and it becomes
\* Fetched only by a successful backend fetch or a successful load.
C5_NeverBackToUnfetch ==
    [][ /\ (status # "Unfetch" => status' # "Unfetch")
        /\ (call'.op \in FetchOps /\ status' = "Fetched")
              => \/ (call'.fetched = 1 /\ call'.raised = "none")
                 \/ call'.loaded = "catalog" ]_vars

\* the catalog artifacts: name starting with "contract", suffix .pkl or .lock
Artifacts == {CatalogFile, LockFile}

\* C6 as stated: after a sweep without a file-system error no catalog cache
\* or lock file whose age is greater than 3 days remains.
C6_NoneOlderThanKeepDays ==
    (AfterFetch /\ ~call.sweepErr) =>
        \A f \in Artifacts :
            call.afterSweep[f] # Absent
                => ~(call.at - call.afterSweep[f] > KeepDays * MinPerDay)

\* C6 amended: after a sweep without a file-system error no catalog cache or
\* lock file whose age is 4 days or more (more than 3 whole days) remains.
C6_NoneOfFourDaysOrMore ==
    (AfterFetch /\ ~call.sweepErr) =>
        \A f \in Artifacts :
            call.afterSweep[f] # Absent
                => call.at - call.afterSweep[f] < (KeepDays + 1) * MinPerDay

\* C6 witness: a sweep without error removed both artifacts.
C6_Witness ==
    /\ AfterFetch
    /\ ~call.sweepErr
    /\ call.unlinked = Artifacts

\* C7: no file-system failure of the cache layer reaches the caller of
\* fetch_contracts: a failure of the freshness check is a cache miss that
\* leads to the backend fetch, it is never raised.
C7_CacheFailureNeverRaised ==
    AfterFetch =>
        /\ call.raised # "FileNotFoundError"
        /\ (call.check = "raise" => call.fetched = 1)

ReserveOps == {"stock_reserve_summary", "stock_reserve_detail", "reserve_stock",
               "earmarking_detail", "reserve_earmarking"}

\* C8: each of the five reserve / earmarking operations, called with an
\* account whose signed flag is false, raises AccountNotSignError and makes
\* no call on the backend session.
C8_UnsignedRaisesBeforeBackend ==
    (out.op \in ReserveOps /\ ~out.account.signed)
        => (out.raised = "AccountNotSignError" /\ out.backend = <<>>)

\* C8 witness: reserve_earmarking was refused for an unsigned account.
C8_Witness ==
    /\ out.op = "reserve_earmarking"
    /\ ~out.account.signed
    /\ out.raised = "AccountNotSignError"

\* C9: place_order with an order that carries no account assigns the
\* futures/options default account for a Future or Option contract and the
\* stock default account for a Stock contract; when no usable default is
\* available it fails with AccountNotProvideError, it neither returns
\* without an error nor sends the order with no account.
C9_DefaultAccountOrError ==
    (out.op = "place_order" /\ out.account = None) =>
        LET usable == IF out.sec \in {"Future", "Option"} THEN futopt_account
                      ELSE IF out.sec = "Stock" THEN stock_account
                      ELSE None
        IN  IF usable # None
            THEN out.orderAccount = usable
            ELSE /\ out.raised = "AccountNotProvideError"
                 /\ out.backend = <<>>

\* C10: an account-scoped operation given an explicit account that fails
\* its precondition fails with an error before any backend call; it never
\* issues the backend call on the default account instead.
C10_ExplicitAccountNeverDefaulted ==
    /\ (out.op = "update_combostatus" /\ out.account # None /\ ~out.account.signed)
           => (out.raised # "none" /\ out.backend = <<>>)
    /\ (out.op = "update_status" /\ out.trade = NoTrade /\ out.account # None
            /\ ~(out.account.signed \/ simulation))
           => (out.raised # "none" /\ out.backend = <<>>)

Traced == trace.op = "_trace_log"

\* the session calls of the last _trace_log call that forward the trade
Forwards == {i \in 1..Len(trace.calls) : trace.calls[i].fn = "trace_log"}

\* the primary session lists an unsigned account of the trade's type
UnsignedMatch == \E acc \in accounts : acc.account_type = trace.type /\ ~acc.signed

\* the instant of the last _trace_log call lies in the active window
InWindow == Weekday(trace.at) < 5 /\ HourOf(trace.at) < 12

C12_ImplicitCreatedOnce ==
    /\ created <= 1
    /\ (solace_implicit # None) = (created = 1)
    /\ (Traced /\ trace.simulation /\ InWindow /\ UnsignedMatch /\ trace.raised = "none")
          => /\ created = 1
             /\ trace.made = (IF trace.had THEN 0 ELSE 1)
             /\ Cardinality({i \in 1..Len(trace.calls) :
                                trace.calls[i].fn = "simulation_login"}) = trace.made
             /\ trace.calls[Len(trace.calls)] = SessionCall("implicit", "trace_log")

\* a later call inside the window that found the implicit session and
\* forwarded through it
C12_Witness ==
    /\ Traced
    /\ InWindow
    /\ UnsignedMatch
    /\ trace.had
    /\ trace.made = 0
    /\ created = 1
    /\ Forwards # {}

\* C13: inside the active window and with the primary session logged in,
\* when the reconciliation mode is configured
\* and a primary-session account of the trade's type is unsigned, _trace_log
\* forwards the trade through the implicit session; when the mode is not
\* configured it forwards the trade through the primary session.
C13_RoutedByMode ==
    (Traced /\ trace.simulation /\ InWindow /\ trace.raised = "none"
        /\ solace.logged_in)
        => /\ (simu_to_stag /\ UnsignedMatch)
                => (\E i \in Forwards : trace.calls[i].on = "implicit")
           /\ ~simu_to_stag
                => /\ \E i \in Forwards : trace.calls[i].on = "primary"
                   /\ \A i \in Forwards : trace.calls[i].on = "primary"

\* C14: every _trace_log call made in simulation mode inside the active
\* window, the primary session being logged in, forwards the trade by
\* exactly one trace_log call, on one session.
C14_ForwardedExactlyOnce ==
    (Traced /\ trace.simulation /\ InWindow /\ trace.raised = "none"
        /\ solace.logged_in)
        => Cardinality(Forwards) = 1

\* C15: once the backend place_order has completed, place_order returns the
\* trade to its caller, also when the trace logging that follows fails.
C15_TradeReturnedDespiteTraceFailure ==
    (out.op = "place_order" /\ out.backend # <<>>
        /\ Traced /\ trace.raised = "BackendError")
        => /\ out.raised = "none"
           /\ out.returned = "trade"

\* C16: after logout has returned no session of the router is logged in,
\* neither the primary session nor the implicit session if there is one.
C16_LogoutLogsOutBoth ==
    out.op = "logout"
        => /\ ~solace.logged_in
           /\ (solace_implicit # None => ~solace_implicit.logged_in)

\* C17: an implicit session that is logged in was logged in by a hand-off
\* simulation_login with subscribe_trade=False and the token the primary
\* session held at that call; the implicit session never makes a credential
\* login (token_login).
C17_ImplicitLoginIsHandOff ==
    /\ solace_implicit # None
          => /\ solace_implicit.login # "token_login"
             /\ solace_implicit.logged_in
                   => /\ solace_implicit.login = "simulation_login"
                      /\ solace_implicit.subscribe_trade = FALSE
                      /\ solace_implicit.token \in Tokens
    /\ Traced
          => /\ \A i \in 1..Len(trace.calls) :
                   /\ trace.calls[i].fn # "token_login"
                   /\ trace.calls[i].fn = "simulation_login"
                         => /\ trace.calls[i].on = "implicit"
                            /\ trace.calls[i].token = trace.token
                            /\ trace.calls[i].subscribe_trade = FALSE
             /\ (trace.made = 1 /\ trace.raised = "none")
                   => solace_implicit.token = trace.token

\* the call that created the implicit session and logged it in
C17_Witness ==
    /\ Traced
    /\ trace.made = 1
    /\ trace.raised = "none"
    /\ solace_implicit # None
    /\ solace_implicit.logged_in
    /\ solace_implicit.token = solace.token

\* C18: place_order and place_comboorder raise TargetContractNotExistError
\* with no backend order call whenever the contract, or a leg of the combo,
\* carries a target_code that Contracts.Futures does not hold; when the
\* target is held, place_order sends the resolved target contract.
C18_AbsentTargetRaises ==
    /\ (out.op = "place_order" /\ out.target = "absent")
          => /\ out.raised = "TargetContractNotExistError"
             /\ out.backend = <<>>
    /\ (out.op = "place_order" /\ out.target = "present" /\ out.backend # <<>>)
          => out.backend[1].contract = "target"
    /\ (out.op = "place_comboorder"
            /\ \E i \in 1..Len(out.legs) : out.legs[i] = "absent")
          => /\ out.raised = "TargetContractNotExistError"
             /\ out.backend = <<>>

C20_FreshKeysAreFieldsPassed ==
    lastWrite = NoWrite
        => /\ KeysNow = fields_set
           /\ \A f \in Fields \ fields_set : ReadOf(f) = [kind |-> "KeyError"]

\* C21: lazy_setter overwrites exactly the keys of its updates that name a
\* declared field and ignores every other key without an error, also a key
\* that names a method of the record.
C21_LazySetterPartial ==
    ret.op = "lazy_setter"
        => /\ ret.err = "none"
           /\ ret.wr = ret.names \cap Fields

\* the declared constraint of a field (order.py lines 46-55)
Valid(f, v) ==
    CASE f = "action"   -> v.kind = "enum"
      [] f = "quantity" -> v.kind = "int" /\ v.n > 0
      [] f = "id"       -> v.kind = "str"

\* C22: in every reachable state a field that is set holds a value that
\* satisfies its declared constraint; an order's quantity is a strictly
\* positive integer after construction and after any lazy_setter calls and
\* attribute writes.
C22_SetFieldsAreValid ==
    \A f \in fields_set : Valid(f, data[f])

\* the implementation the reported version calls for, the version read as
\* numbers
ExpectedBaseModel(v) ==
    IF v.major >= 2 THEN "BaseModelV20"
    ELSE IF v.major = 1 /\ v.minor > 0 THEN "BaseModelV15"
    ELSE "BaseModelV10"

\* C23: the implementation bound as BaseModel at import is BaseModelV20 for
\* every version 2.0 or later (a major number of 10 or more included),
\* BaseModelV15 for versions above 1.0 and below 2.0, BaseModelV10 otherwise.
C23_BoundByVersion ==
    BaseModel # "unbound" => BaseModel = ExpectedBaseModel(pydantic_version)

\* C24: the implicit session receives trace_log only when it is logged in:
\* a session whose hand-off login raised is not used to forward a record.
C24_ForwardOnlyAfterHandOff ==
    (Traced /\ \E i \in Forwards : trace.calls[i].on = "implicit")
        => (solace_implicit # None /\ solace_implicit.logged_in)

\* C25: a subscript read of the order on the trade that holds it returns the
\* order as it is now, also when the view of the trade was cached before a
\* field of the order was changed.
C25_ParentViewFollowsNested ==
    TradeViewAfterRead["order"] = DictV(model_dump(data, fields_set))

\* C26: place_comboorder makes no backend call when the combo contract does
\* not have exactly two legs.
C26_TwoLegsOrNoBackendCall ==
    (out.op = "place_comboorder" /\ Len(out.legs) # 2) => out.backend = <<>>

\* C27: at any one clock value a file that check_contract_cache accepts is
\* not a file that clear_outdated_contract_cache deletes, for any keep_days
\* from 0 up to the default; the sweep of a fetch_contracts call does not
\* remove a catalog file that the check would have accepted.
C27_AcceptedNeverSwept ==
    /\ \A f \in FileNames, keep \in 0..KeepDays :
          (files[f] # Absent /\ check_contract_cache(files[f], now))
              => f \notin Outdated(files, now, keep)
    /\ \A m \in Times, keep \in 0..KeepDays :
          check_contract_cache(m, now)
              => CatalogFile \notin Outdated([files EXCEPT ![CatalogFile] = m], now, keep)

\* a call whose sweep removed an old artifact and whose check accepted the
\* catalog file it found
C27_Witness ==
    /\ AfterFetch
    /\ call.unlinked # {}
    /\ CatalogFile \notin call.unlinked
    /\ call.seen # Absent
    /\ call.check = "accept"

\* C28: when place_order or place_comboorder ends without a backend call
\* the order and the contract passed by the caller are as they were: no
\* account has been assigned to the order and no leg has been rewritten.
C28_NoBackendNoMutation ==
    /\ (out.op = "place_order" /\ out.backend = <<>>)
          => out.orderAccount = out.account
    /\ (out.op = "place_comboorder" /\ out.backend = <<>>)
          => /\ out.orderAccount = out.account
             /\ out.rewritten = {}

PortfolioOps == {"list_positions", "list_position_detail", "list_profit_loss",
                 "list_profit_loss_detail", "list_profit_loss_summary"}

\* C29: a portfolio query called without an account uses the stock default
\* account if it is set, otherwise the futures/options default account, and
\* raises AccountNotProvideError with no backend call if neither is set; an
\* account passed explicitly is forwarded unchanged.
C29_PortfolioDefaultOrder ==
    out.op \in PortfolioOps
        => IF out.account # None
           THEN out.raised = "none" /\ out.backend = <<BackendCall(out.op, out.account)>>
           ELSE IF stock_account # None
           THEN out.raised = "none" /\ out.backend = <<BackendCall(out.op, stock_account)>>
           ELSE IF futopt_account # None
           THEN out.raised = "none" /\ out.backend = <<BackendCall(out.op, futopt_account)>>
           ELSE out.raised = "AccountNotProvideError" /\ out.backend = <<>>

\* a query without an account, with both defaults set, sent for the stock
\* default account
C29_Witness ==
    /\ out.op = "list_profit_loss_summary"
    /\ out.account = None
    /\ stock_account # None
    /\ futopt_account # None
    /\ out.backend = <<BackendCall(out.op, stock_account)>>

\* C30: update_status without a trade queries the backend for an account
\* only if the account is signed or the SDK is in simulation mode, and does
\* not raise for an unsigned account; with neither trade nor account it
\* queries the stock default account before the futures/options default
\* account, each at most once.
C30_StatusQueriesGated ==
    (out.op = "update_status" /\ out.trade = NoTrade)
        => LET eligible(a) == a # None /\ (a.signed \/ simulation)
               asked(a) == IF eligible(a) THEN <<BackendCall("update_status", a)>>
                           ELSE <<>>
           IN  /\ out.raised = "none"
               /\ \A i \in 1..Len(out.backend) :
                     out.backend[i].account.signed \/ simulation
               /\ out.account # None => out.backend = asked(out.account)
               /\ out.account = None
                     => out.backend = asked(stock_account) \o asked(futopt_account)

\* a call with neither trade nor account that queried both defaults, the
\* stock default account first
C30_Witness ==
    /\ out.op = "update_status"
    /\ out.trade = NoTrade
    /\ out.account = None
    /\ Len(out.backend) = 2
    /\ out.backend[1].account = stock_account
    /\ out.backend[2].account = futopt_account

====
